---------------------------- MODULE Spec2Model ----------------------------
(***************************************************************************)
(* A model of mathillu: the escape-time and Gaussian renderers, the HSV    *)
(* colour conversion and the animation sequencer.                          *)
(*                                                                         *)
(* Arithmetic.  The program computes in f64/f32.  The model computes in    *)
(* exact rational arithmetic: a number is a pair <<n, d>> in lowest terms  *)
(* with d > 0.  ln and exp are modelled on the powers of two (see Log2 and *)
(* Exp2 below).  Rounding of the binary floating-point formats is not      *)
(* modelled; integer conversions (as u8, as u32, as usize) are.            *)
(***************************************************************************)
EXTENDS Integers, Sequences, FiniteSets, TLC

(***************************************************************************)
(* Rational numbers                                                        *)
(***************************************************************************)
RECURSIVE GCD(_, _)
GCD(a, b) == IF b = 0 THEN a ELSE GCD(b, a % b)

IAbs(a) == IF a < 0 THEN -a ELSE a

Norm(n, d) ==
    LET s == IF d < 0 THEN -1 ELSE 1
        g == GCD(IAbs(n), IAbs(d))
    IN  <<(s * n) \div g, (s * d) \div g>>

R(n) == <<n, 1>>
Frac(n, d) == Norm(n, d)
Zero == R(0)
One == R(1)

RAdd(a, b) ==
    LET g == GCD(a[2], b[2])
    IN  Norm(a[1] * (b[2] \div g) + b[1] * (a[2] \div g), (a[2] \div g) * b[2])
RNeg(a) == <<-a[1], a[2]>>
RSub(a, b) == RAdd(a, RNeg(b))
RMul(a, b) ==
    LET g1 == GCD(IAbs(a[1]), b[2])
        g2 == GCD(IAbs(b[1]), a[2])
    IN  Norm((a[1] \div g1) * (b[1] \div g2), (a[2] \div g2) * (b[2] \div g1))
\* Division by zero yields an infinity or NaN in f64; the model never
\* divides by zero (guarded at each use).
RDiv(a, b) == RMul(a, Norm(b[2], b[1]))
RLt(a, b) == RSub(a, b)[1] < 0
RLe(a, b) == RSub(a, b)[1] <= 0
RGt(a, b) == RLt(b, a)
RGe(a, b) == RLe(b, a)
RAbs(a) == <<IAbs(a[1]), a[2]>>
RMax(a, b) == IF RLt(a, b) THEN b ELSE a
IsInt(a) == a[2] = 1

\* floor of a rational (\div rounds toward minus infinity for d > 0)
RFloor(a) == a[1] \div a[2]
\* truncation toward zero
RTrunc(a) == IF a[1] >= 0 THEN a[1] \div a[2] ELSE -((-a[1]) \div a[2])
\* f64::round : to nearest, ties away from zero
RRound(a) ==
    IF a[1] >= 0 THEN (2 * a[1] + a[2]) \div (2 * a[2])
                 ELSE -((2 * (-a[1]) + a[2]) \div (2 * a[2]))
\* `x as u8` / `x as u32` / `x as usize` on a float: truncate toward zero and
\* saturate at the bounds of the type.
AsU8(a) ==
    LET t == RTrunc(a) IN IF t < 0 THEN 0 ELSE IF t > 255 THEN 255 ELSE t
AsUnsigned(a) == LET t == RTrunc(a) IN IF t < 0 THEN 0 ELSE t
\* the % operator on floats (fmod): the result has the sign of the dividend
RFmod(a, m) == RSub(a, RMul(R(RTrunc(RDiv(a, m))), m))

(***************************************************************************)
(* hsv_to_rgb.rs                                                           *)
(***************************************************************************)
Black == <<0, 0, 0, 255>>

hsv_hi(h) == AsUnsigned(RDiv(h, R(60))) % 6
hsv_f(h) == RDiv(RFmod(h, R(60)), R(60))
\* (mutant) p computed from the saturation alone, the value dropped
hsv_p_no_value(s, v) == RSub(R(255), R(s))
hsv_p(s, v) == RDiv(RMul(R(v), RSub(R(255), R(s))), R(255))
hsv_q(h, s, v) ==
    RDiv(RMul(R(v), RSub(R(255), RMul(R(s), hsv_f(h)))), R(255))
hsv_t(h, s, v) ==
    RDiv(RMul(R(v), RSub(R(255), RMul(R(s), RSub(One, hsv_f(h))))), R(255))

\* (mutant) q and t exchanged in every sector
hsv_to_rgb_swapped(h, s, v) ==
    LET hi == hsv_hi(h)
        p == AsU8(hsv_p(s, v))
        q == AsU8(hsv_t(h, s, v))
        t == AsU8(hsv_q(h, s, v))
    IN  CASE hi = 0 -> <<v, t, p, 255>>
          [] hi = 1 -> <<q, v, p, 255>>
          [] hi = 2 -> <<p, v, t, 255>>
          [] hi = 3 -> <<p, q, v, 255>>
          [] hi = 4 -> <<t, p, v, 255>>
          [] OTHER  -> <<v, p, q, 255>>

hsv_to_rgb(h, s, v) ==
    LET hi == hsv_hi(h)
        p == AsU8(hsv_p(s, v))
        q == AsU8(hsv_q(h, s, v))
        t == AsU8(hsv_t(h, s, v))
    IN  CASE hi = 0 -> <<v, t, p, 255>>
          [] hi = 1 -> <<q, v, p, 255>>
          [] hi = 2 -> <<p, v, t, 255>>
          [] hi = 3 -> <<p, q, v, 255>>
          [] hi = 4 -> <<t, p, v, 255>>
          [] OTHER  -> <<v, p, q, 255>>

(***************************************************************************)
(* generate_mandelbrot.rs : calc_mandelbrot                                *)
(***************************************************************************)
\* the f64 value that is neither less than, equal to nor greater than any
\* other: every comparison with it is false and every sum or product of it
\* is NaN again
NaN == <<0, 0>>
is_nan(x) == x[2] = 0

\* x0 * x0 + y0 * y0 <= 4.0, false when the sum is NaN
calc_bounded(x0, y0) ==
    /\ ~is_nan(x0) /\ ~is_nan(y0)
    /\ RLe(RAdd(RMul(x0, x0), RMul(y0, y0)), R(4))

\* (mutant) the loop stops one pass early
calc_continue_early(x0, y0, iteration, max_iterations) ==
    /\ calc_bounded(x0, y0)
    /\ iteration + 1 < max_iterations

\* the loop test of calc_mandelbrot
calc_continue(x0, y0, iteration, max_iterations) ==
    /\ calc_bounded(x0, y0)
    /\ iteration < max_iterations

\* one pass through the loop body: the new <<x0, y0>>
calc_body(x0, y0, cx, cy) ==
    LET nan == is_nan(x0) \/ is_nan(y0)
        xtemp == IF nan \/ is_nan(cx) THEN NaN
                 ELSE RAdd(RSub(RMul(x0, x0), RMul(y0, y0)), cx)
    IN  <<xtemp,
          IF nan \/ is_nan(cy) THEN NaN
          ELSE RAdd(RMul(RMul(R(2), x0), y0), cy)>>

RECURSIVE calc_loop(_, _, _, _, _, _)
calc_loop(x0, y0, iteration, cx, cy, max_iterations) ==
    IF calc_continue(x0, y0, iteration, max_iterations)
    THEN LET z == calc_body(x0, y0, cx, cy)
         IN  calc_loop(z[1], z[2], iteration + 1, cx, cy, max_iterations)
    ELSE iteration

\* (mutant) the orbit starts at c instead of 0
calc_mandelbrot_from_c(cx, cy, max_iterations) ==
    calc_loop(cx, cy, 0, cx, cy, max_iterations)

calc_mandelbrot(cx, cy, max_iterations) ==
    calc_loop(Zero, Zero, 0, cx, cy, max_iterations)

(***************************************************************************)
(* generate_mandelbrot.rs : coordinate_mapper                              *)
(***************************************************************************)
BASE_CENTER_X == Zero
BASE_CENTER_Y == Zero

\* zoom_factor, shared by both renderers
zoom_factor(zoom) ==
    IF RGt(zoom, Zero) THEN RDiv(One, zoom) ELSE RMax(RAbs(zoom), Frac(1, 10))

\* <<scale_x, scale_y>> of coordinate_mapper
mapper_scale(width, height, zoom, m_size) ==
    LET base_range == m_size
        base_scale == IF RGe(zoom, Zero)
                      THEN RMul(base_range, zoom_factor(zoom))
                      ELSE RDiv(base_range, zoom_factor(zoom))
    IN  IF width > height
        THEN <<RMul(base_scale, Frac(width, height)), base_scale>>
        ELSE IF height > width
        THEN <<base_scale, RMul(base_scale, Frac(height, width))>>
        ELSE <<base_scale, base_scale>>

\* <<fixed_scale_x, fixed_scale_y>>: the scale at zoom = 1.0
mapper_fixed_scale(width, height, m_size) ==
    LET fixed_zoom_factor == One
        fixed_base_scale == RMul(m_size, fixed_zoom_factor)
    IN  <<IF width > height THEN RMul(fixed_base_scale, Frac(width, height))
                            ELSE fixed_base_scale,
          IF width > height THEN fixed_base_scale
          ELSE IF height > width THEN RMul(fixed_base_scale, Frac(height, width))
          ELSE fixed_base_scale>>

\* <<actual_center_x, actual_center_y>>: the centre offsets converted with
\* the fixed units per pixel
mapper_center(width, height, center_x, center_y, m_size) ==
    LET fs == mapper_fixed_scale(width, height, m_size)
        fixed_units_per_pixel_x == RDiv(fs[1], R(width))
        fixed_units_per_pixel_y == RDiv(fs[2], R(height))
    IN  <<RMul(RAdd(BASE_CENTER_X, center_x), fixed_units_per_pixel_x),
          RMul(RAdd(BASE_CENTER_Y, center_y), fixed_units_per_pixel_y)>>

\* (mutant) the centre offsets converted with the units per pixel of the
\* current zoom
coordinate_mapper_drift(x, y, width, height, zoom, center_x, center_y, m_size) ==
    LET sc == mapper_scale(width, height, zoom, m_size)
        x_norm == RSub(RMul(Frac(x, width), R(2)), One)
        y_norm == RSub(RMul(Frac(y, height), R(2)), One)
    IN  <<RAdd(RMul(x_norm, RDiv(sc[1], R(2))),
               RMul(center_x, RDiv(sc[1], R(width)))),
          RAdd(RMul(y_norm, RDiv(sc[2], R(2))),
               RMul(center_y, RDiv(sc[2], R(height))))>>

coordinate_mapper(x, y, width, height, zoom, center_x, center_y, m_size) ==
    LET sc == mapper_scale(width, height, zoom, m_size)
        ac == mapper_center(width, height, center_x, center_y, m_size)
        x_norm == RSub(RMul(Frac(x, width), R(2)), One)
        y_norm == RSub(RMul(Frac(y, height), R(2)), One)
    IN  <<RAdd(RMul(x_norm, RDiv(sc[1], R(2))), ac[1]),
          RAdd(RMul(y_norm, RDiv(sc[2], R(2))), ac[2])>>

\* the zoom validation at the head of generate_mandelbrot
mandelbrot_zoom(zoom) == IF RLe(zoom, Zero) THEN One ELSE zoom

\* (mutant) the band index spread over bands instead of bands - 1
mandelbrot_hue_over_bands(iteration, bands) ==
    LET band_index == iteration % bands
    IN  IF bands > 1 THEN RMul(Frac(band_index, bands), R(240)) ELSE Zero

\* the hue of a pixel with a non-zero iteration count (bands >= 1)
mandelbrot_hue(iteration, bands) ==
    LET band_index == iteration % bands
    IN  IF bands > 1 THEN RMul(Frac(band_index, bands - 1), R(240)) ELSE Zero

\* the colour of a pixel from its iteration count (bands >= 1)
mandelbrot_color(iteration, bands) ==
    IF iteration = 0 THEN Black
    ELSE hsv_to_rgb(mandelbrot_hue(iteration, bands), 255, 255)

(***************************************************************************)
(* generate_schrodinger.rs                                                 *)
(***************************************************************************)
\* <<scale_x, scale_y>> of generate_schrodinger
schrodinger_scale(width, height, zoom, m_size) ==
    LET base_range == m_size
        base_scale == IF RGe(zoom, Zero)
                      THEN RDiv(base_range, zoom_factor(zoom))
                      ELSE RMul(base_range, zoom_factor(zoom))
    IN  IF RLt(RAbs(RSub(m_size, R(2000))), Frac(1, 10))
           /\ width = 800 /\ height = 600
        THEN <<R(800), R(600)>>
        ELSE IF width > height
        THEN <<RMul(base_scale, Frac(width, height)), base_scale>>
        ELSE IF height > width
        THEN <<base_scale, RMul(base_scale, Frac(height, width))>>
        ELSE <<base_scale, base_scale>>

\* the plane point <<cx, cy>> of pixel (x, y) in generate_schrodinger
schrodinger_point(x, y, width, height, zoom, center_x, center_y, m_size) ==
    LET sc == schrodinger_scale(width, height, zoom, m_size)
        actual_center_x == RMul(center_x, RDiv(m_size, R(2)))
        actual_center_y == RMul(center_y, RDiv(m_size, R(2)))
    IN  <<RAdd(actual_center_x,
               RMul(RDiv(RSub(R(x), Frac(width, 2)), R(width)), sc[1])),
          RAdd(actual_center_y,
               RMul(RDiv(RSub(R(y), Frac(height, 2)), R(height)), sc[2]))>>

\* exp(-u) for a rational u >= 0, to four decimals.  exp(-frac(u)) is summed
\* by Horner's rule in units of 10^-6 and multiplied by e^-1 floor(u) times;
\* from u = 12 on the result is below half a unit.
RECURSIVE ExpHorner(_, _, _)
ExpHorner(f, j, acc) ==
    IF j = 0 THEN acc
    ELSE ExpHorner(f, j - 1, 1000000 - (f[1] * acc) \div (f[2] * j))
RECURSIVE ExpTimesEInv(_, _)
ExpTimesEInv(a, k) ==
    IF k = 0 THEN a ELSE ExpTimesEInv((a * 3679) \div 10000, k - 1)
ExpNeg(u) ==
    LET k == RFloor(u)
        f == RSub(u, R(k))
    IN  IF k >= 12 THEN Zero
        ELSE Frac(ExpTimesEInv(ExpHorner(f, 12, 1000000) \div 100, k), 10000)

\* the probability density at <<cx, cy>> with sigma = 0.5
schrodinger_density(cx, cy) ==
    LET sigma == Frac(1, 2)
        r_squared == RAdd(RMul(cx, cx), RMul(cy, cy))
    IN  ExpNeg(RDiv(r_squared, RMul(R(2), RMul(sigma, sigma))))

schrodinger_hue(density, bands) ==
    LET band_index == IF bands > 1 THEN RRound(RMul(density, R(bands - 1)))
                      ELSE 0
    IN  IF bands > 1 THEN RMul(Frac(band_index, bands - 1), R(240)) ELSE Zero

schrodinger_color(density, bands) ==
    hsv_to_rgb(schrodinger_hue(density, bands), 255, 255)

\* `{:.k}` formatting of a number: the nearest multiple of 10^-k, ties to even
Pow10(k) == IF k = 0 THEN 1 ELSE IF k = 1 THEN 10 ELSE IF k = 2 THEN 100
            ELSE 1000000
FmtDec(a, k) ==
    LET y == RMul(a, R(Pow10(k)))
        fl == RFloor(y)
        twice == RSub(RMul(R(2), y), R(2 * fl))   \* 2 * frac(y), in [0, 2)
        n == IF RLt(twice, One) THEN fl
             ELSE IF RGt(twice, One) THEN fl + 1
             ELSE IF fl % 2 = 0 THEN fl ELSE fl + 1
    IN  Frac(n, Pow10(k))

(***************************************************************************)
(* State                                                                   *)
(***************************************************************************)
\* Option<T>
None == <<>>
Some(x) == <<x>>

VARIABLES
    calc,     \* one call of calc_mandelbrot, loop pass by loop pass
    hsv,      \* one call of hsv_to_rgb
    render,   \* one call of generate_mandelbrot or generate_schrodinger
    video,    \* one run of generate_video
    main,     \* one run of main: parameters, dispatch, save_config
    grid      \* one call of add_grid_to_image

vars == <<calc, hsv, render, video, main, grid>>

Idle == [pc |-> "idle"]

(***************************************************************************)
(* Bounds and input sets                                                   *)
(***************************************************************************)
MaxIter == 3        \* max_iterations ranges over 0 .. MaxIter
CalcMaxIter == 8    \* ... and over 0 .. CalcMaxIter at the integer points
MaxBands == 3       \* bands ranges over 1 .. MaxBands
MaxHue == 359       \* hues range over the integers 0 .. MaxHue

IntCoords == {R(-2), R(-1), Zero, R(1), R(2)}
CalcCoords == IntCoords \cup {Frac(-1, 2), Frac(1, 2), NaN}
\* <<cx, cy, max_iterations>>: the orbit of a point with integer coordinates
\* stays in the integers, so it can be followed further
CalcInputs ==
    (CalcCoords \X CalcCoords \X (0 .. MaxIter))
        \cup (IntCoords \X IntCoords \X (0 .. CalcMaxIter))
Hues == {R(k) : k \in 0 .. MaxHue}
SweepHues == {h \in Hues : h[1] % 15 = 0}
Bytes == {0, 1, 64, 127, 128, 200, 254, 255}
AllBytes == 0 .. 255
\* <<h, s, v>>
HsvInputs ==
    (Hues \X Bytes \X Bytes)
        \cup (SweepHues \X AllBytes \X {0})
        \cup (SweepHues \X {0} \X AllBytes)

(***************************************************************************)
(* calc_mandelbrot, one loop pass per step                                 *)
(***************************************************************************)
CalcInit ==
    /\ \E in \in CalcInputs :
           calc = [cx |-> in[1], cy |-> in[2], max_iterations |-> in[3],
                   x0 |-> Zero, y0 |-> Zero, iteration |-> 0,
                   pc |-> "loop", result |-> 0]
    /\ hsv = Idle /\ render = Idle /\ video = Idle
    /\ main = Idle /\ grid = Idle

CalcIterate ==
    /\ calc.pc = "loop"
    /\ calc_continue(calc.x0, calc.y0, calc.iteration, calc.max_iterations)
    /\ LET z == calc_body(calc.x0, calc.y0, calc.cx, calc.cy)
       IN  calc' = [calc EXCEPT !.x0 = z[1], !.y0 = z[2],
                                !.iteration = calc.iteration + 1]
    /\ UNCHANGED <<hsv, render, video, main, grid>>

CalcReturn ==
    /\ calc.pc = "loop"
    /\ ~calc_continue(calc.x0, calc.y0, calc.iteration, calc.max_iterations)
    /\ calc' = [calc EXCEPT !.pc = "done", !.result = calc.iteration]
    /\ UNCHANGED <<hsv, render, video, main, grid>>

CalcNext == CalcIterate \/ CalcReturn
CalcSpec == CalcInit /\ [][CalcNext]_vars

(***************************************************************************)
(* hsv_to_rgb                                                              *)
(***************************************************************************)
HsvInit ==
    /\ \E in \in HsvInputs :
           hsv = [h |-> in[1], s |-> in[2], v |-> in[3], pc |-> "call",
                  color |-> <<0, 0, 0, 0>>]
    /\ calc = Idle /\ render = Idle /\ video = Idle
    /\ main = Idle /\ grid = Idle

HsvCall ==
    /\ hsv.pc = "call"
    /\ hsv' = [hsv EXCEPT !.pc = "ret",
                          !.color = hsv_to_rgb(hsv.h, hsv.s, hsv.v)]
    /\ UNCHANGED <<calc, render, video, main, grid>>

HsvNext == HsvCall
HsvSpec == HsvInit /\ [][HsvNext]_vars

(***************************************************************************)
(* generate_mandelbrot / generate_schrodinger: one render                  *)
(***************************************************************************)
RenderDims == {<<2, 2>>, <<4, 2>>, <<2, 4>>}   \* <<width, height>>
RenderCenters == {<<Zero, Zero>>, <<One, Zero>>, <<Zero, R(-1)>>}
RenderZooms == {R(-2), Zero, Frac(1, 2), One, R(4)}
RenderMSizes == {R(4)}
Functions == {"mandelbrot", "schrodinger"}

NPixels(r) == r.width * r.height
PixelX(r, i) == i % r.width          \* enumerate_pixels_mut is row-major
PixelY(r, i) == i \div r.width

RenderStart(fn, dim, mi, bands, c, zoom, m_size) ==
    [function |-> fn, width |-> dim[1], height |-> dim[2],
     max_iterations |-> mi, bands |-> bands,
     center_x |-> c[1], center_y |-> c[2], zoom_arg |-> zoom,
     m_size |-> m_size,
     pc |-> "entry",
     zoom |-> zoom,            \* the local `zoom` the body reads
     idx |-> 0,                \* pixels written so far
     imgbuf |-> [i \in 0 .. (dim[1] * dim[2] - 1) |-> <<0, 0, 0, 0>>],
     plane |-> <<>>,           \* the plane point each pixel was mapped to
     iters |-> <<>>,           \* the scalar each pixel evaluated to
     hues |-> <<>>,            \* the hue each pixel got, None for `0 =>`
     text |-> Zero,            \* the number printed in the annotation
     saved |-> FALSE, exit_code |-> 0]

RenderInit ==
    /\ \E dim \in RenderDims, bands \in 1 .. MaxBands, c \in RenderCenters,
          zoom \in RenderZooms, m_size \in RenderMSizes :
          \/ \E mi \in 0 .. MaxIter :
                render = RenderStart("mandelbrot", dim, mi, bands, c, zoom, m_size)
          \/ render = RenderStart("schrodinger", dim, 0, bands, c, zoom, m_size)
    /\ calc = Idle /\ hsv = Idle /\ video = Idle
    /\ main = Idle /\ grid = Idle

\* generate_mandelbrot, to the head of the pixel loop
MandelbrotEnter ==
    /\ render.pc = "entry" /\ render.function = "mandelbrot"
    /\ render' = [render EXCEPT !.pc = "pixels",
                                !.zoom = mandelbrot_zoom(render.zoom_arg)]
    /\ UNCHANGED <<calc, hsv, video, main, grid>>

\* generate_schrodinger, to the head of the pixel loop
SchrodingerEnter ==
    /\ render.pc = "entry" /\ render.function = "schrodinger"
    /\ render' = [render EXCEPT !.pc = "pixels"]
    /\ UNCHANGED <<calc, hsv, video, main, grid>>

\* one pass of the pixel loop of generate_mandelbrot
MandelbrotPixel ==
    /\ render.pc = "pixels" /\ render.function = "mandelbrot"
    /\ render.idx < NPixels(render)
    /\ LET i == render.idx
           c == coordinate_mapper(PixelX(render, i), PixelY(render, i),
                                  render.width, render.height, render.zoom,
                                  render.center_x, render.center_y,
                                  render.m_size)
           iteration == calc_mandelbrot(c[1], c[2], render.max_iterations)
       IN  render' = [render EXCEPT
                        !.imgbuf[i] = mandelbrot_color(iteration, render.bands),
                        !.plane = Append(render.plane, c),
                        !.iters = Append(render.iters, iteration),
                        !.hues = Append(render.hues,
                                    IF iteration = 0 THEN None
                                    ELSE Some(mandelbrot_hue(iteration,
                                                             render.bands))),
                        !.idx = i + 1]
    /\ UNCHANGED <<calc, hsv, video, main, grid>>

\* one pass of the pixel loop of generate_schrodinger
SchrodingerPixel ==
    /\ render.pc = "pixels" /\ render.function = "schrodinger"
    /\ render.idx < NPixels(render)
    /\ LET i == render.idx
           c == schrodinger_point(PixelX(render, i), PixelY(render, i),
                                  render.width, render.height, render.zoom,
                                  render.center_x, render.center_y,
                                  render.m_size)
           density == schrodinger_density(c[1], c[2])
       IN  render' = [render EXCEPT
                        !.imgbuf[i] = schrodinger_color(density, render.bands),
                        !.plane = Append(render.plane, c),
                        !.iters = Append(render.iters, density),
                        !.hues = Append(render.hues,
                                    Some(schrodinger_hue(density,
                                                         render.bands))),
                        !.idx = i + 1]
    /\ UNCHANGED <<calc, hsv, video, main, grid>>

\* std::fs::read(font_path) and Font::try_from_vec: an unreadable file exits
\* with status 1, an unparsable one panics (status 101)
FontOutcomes == {"ok", "unreadable", "unparsable"}
ReadFont ==
    /\ render.pc = "pixels" /\ render.idx = NPixels(render)
    /\ \E o \in FontOutcomes :
          render' = [render EXCEPT
                       !.pc = IF o = "ok" THEN "text" ELSE "exit",
                       !.exit_code = IF o = "ok" THEN 0
                                     ELSE IF o = "unreadable" THEN 1 ELSE 101]
    /\ UNCHANGED <<calc, hsv, video, main, grid>>

\* draw_text_mut of "ZOOM {:.1}": the glyphs cover some pixels (here none,
\* the first or the last), which turn black
DrawText ==
    /\ render.pc = "text"
    /\ \E covered \in {{}, {0}, {NPixels(render) - 1}} :
          render' = [render EXCEPT
                       !.pc = "save",
                       !.text = FmtDec(render.zoom, 1),
                       !.imgbuf = [i \in DOMAIN render.imgbuf |->
                                     IF i \in covered THEN Black
                                     ELSE render.imgbuf[i]]]
    /\ UNCHANGED <<calc, hsv, video, main, grid>>

\* imgbuf.save(output_path): a failure exits with status 1
SaveImage ==
    /\ render.pc = "save"
    /\ \E ok \in BOOLEAN :
          render' = [render EXCEPT
                       !.pc = IF ok THEN "done" ELSE "exit",
                       !.saved = ok,
                       !.exit_code = IF ok THEN 0 ELSE 1]
    /\ UNCHANGED <<calc, hsv, video, main, grid>>

RenderNext ==
    \/ MandelbrotEnter \/ SchrodingerEnter
    \/ MandelbrotPixel \/ SchrodingerPixel
    \/ ReadFont \/ DrawText \/ SaveImage
RenderSpec == RenderInit /\ [][RenderNext]_vars

(***************************************************************************)
(* generate_video.rs                                                       *)
(*                                                                         *)
(* The zoom of a frame may be irrational (exp of an interpolated           *)
(* logarithm).  A zoom value is a record [m, e] standing for m * 2^e with  *)
(* m rational and e a rational in [0, 1); the start and end zooms of the   *)
(* model are zero, negative, or powers of two, on which ln is exact in     *)
(* units of ln 2.                                                          *)
(***************************************************************************)
RECURSIVE ILog2(_)
ILog2(n) == IF n <= 1 THEN 0 ELSE 1 + ILog2(n \div 2)
RECURSIVE IPow2(_)
IPow2(k) == IF k = 0 THEN 1 ELSE 2 * IPow2(k - 1)

Real(r) == [m |-> r, e |-> Zero]
\* f64::ln of a power of two, in units of ln 2
Ln(a) == IF a[2] = 1 THEN R(ILog2(a[1])) ELSE R(-ILog2(a[2]))
\* f64::exp of q * ln 2
Exp(q) ==
    LET k == RFloor(q)
    IN  [m |-> IF k >= 0 THEN R(IPow2(k)) ELSE Frac(1, IPow2(-k)),
         e |-> RSub(q, R(k))]
RealPositive(z) == RGt(z.m, Zero)

unwrap_or(o, d) == IF o = None THEN d ELSE o[1]

\* total_frames = (fps * duration).round() as u32
\* (mutant) the fraction of a frame is cut off
video_total_frames_truncated(fps, duration) ==
    AsUnsigned(R(RFloor(RMul(fps, duration))))

video_total_frames(fps, duration) == AsUnsigned(R(RRound(RMul(fps, duration))))

\* end_cx, end_cy, end_z: the end values, each defaulting to its start value
video_end_values_crossed(a) ==        \* (mutant) end_cy falls back to center_x
    [cx |-> unwrap_or(a.end_center_x, a.center_x),
     cy |-> unwrap_or(a.end_center_y, a.center_x),
     z |-> unwrap_or(a.end_zoom, a.zoom)]
video_end_values(a) ==
    [cx |-> unwrap_or(a.end_center_x, a.center_x),
     cy |-> unwrap_or(a.end_center_y, a.center_y),
     z |-> unwrap_or(a.end_zoom, a.zoom)]

\* (mutant) the frame index divided by the number of frames
video_t_over_count(i, total_frames) ==
    IF total_frames > 1 THEN Frac(i, total_frames) ELSE Zero

\* the interpolation parameter of frame i
video_t(i, total_frames) ==
    IF total_frames > 1 THEN Frac(i, total_frames - 1) ELSE Zero

\* (mutant) the frame loop ends one pass early
video_loop_done_early(i, total_frames) == i + 1 >= total_frames

\* `for i in 0..total_frames` has run out
video_loop_done(i, total_frames) == i >= total_frames

\* (mutant) the time of the following frame
video_time_next(i, fps) == RDiv(R(i + 1), fps)

\* the time logged for frame i
video_time(i, fps) == RDiv(R(i), fps)

\* start + (end - start) * t
video_lerp(start, end, t) == RAdd(start, RMul(RSub(end, start), t))

\* (mutant) the zoom interpolated linearly in every case
video_zoom_linear(zoom, end_z, t) == Real(video_lerp(zoom, end_z, t))

\* (mutant) the logarithm of the end zoom scaled by t, the start not taken off
video_zoom_no_delta(zoom, end_z, t) ==
    IF RGt(zoom, Zero) /\ RGt(end_z, Zero)
    THEN LET log_start == Ln(zoom)
             log_end == Ln(end_z)
         IN  Exp(RAdd(log_start, RMul(log_end, t)))
    ELSE Real(video_lerp(zoom, end_z, t))

\* the zoom of a frame
video_zoom(zoom, end_z, t) ==
    IF RGt(zoom, Zero) /\ RGt(end_z, Zero)
    THEN LET log_start == Ln(zoom)
             log_end == Ln(end_z)
         IN  Exp(video_lerp(log_start, log_end, t))
    ELSE Real(video_lerp(zoom, end_z, t))

\* the zoom a renderer maps pixels with, given the zoom it is called with
render_zoom(function, z) ==
    IF function = "mandelbrot" /\ ~RealPositive(z) THEN Real(One) ELSE z

\* one row of the log file: "{},{:.2},{:.6},{:.6},{:.6}"
FmtReal(z, k) ==
    [m |-> IF z.e = Zero THEN FmtDec(z.m, k) ELSE z.m, e |-> z.e, digits |-> k]
video_log_row(entry) ==
    [frame |-> entry.frame, time |-> FmtDec(entry.time, 2),
     x |-> FmtDec(entry.x, 6), y |-> FmtDec(entry.y, 6),
     zoom |-> FmtReal(entry.zoom, 6)]

MaxDurationHalves == 3    \* duration ranges over 0, 1/2 .. MaxDurationHalves/2

VideoZooms == {R(-1), Zero, One, R(4)}
VideoEndZooms ==
    {None, Some(R(-2)), Some(Zero), Some(One), Some(R(4)), Some(R(8))}
VideoCenterXs == {Zero, One}
VideoEndCenterXs == {None, Some(Zero), Some(R(3))}
VideoCenterYs == {Frac(-1, 2)}
VideoEndCenterYs == {None, Some(One)}
VideoFps == {R(2), R(3)}
VideoDurations == {Frac(k, 2) : k \in 0 .. MaxDurationHalves}
VideoFunctions == {"mandelbrot", "schrodinger", "manual"}
\* frame files already in frames_dir under this run's names: none, or those
\* of an earlier, longer run
VideoStaleFiles == {{}, 0 .. 6}

VideoInit ==
    /\ \E cx \in VideoCenterXs, ecx \in VideoEndCenterXs,
          cy \in VideoCenterYs, ecy \in VideoEndCenterYs,
          z \in VideoZooms, ez \in VideoEndZooms,
          fps \in VideoFps, duration \in VideoDurations,
          fn \in VideoFunctions, stale \in VideoStaleFiles :
          video = [center_x |-> cx, center_y |-> cy, zoom |-> z,
                   end_center_x |-> ecx, end_center_y |-> ecy,
                   end_zoom |-> ez, fps |-> fps, duration |-> duration,
                   function |-> fn,
                   pc |-> "entry", total_frames |-> 0,
                   end_cx |-> Zero, end_cy |-> Zero, end_z |-> Zero,
                   i |-> 0,
                   frames |-> <<>>,       \* the renders made, in order
                   stale |-> stale,
                   files |-> stale,       \* indices of the frame files on disk
                   log_entries |-> <<>>,
                   log_file |-> <<>>,     \* lines of the log file
                   log_written |-> FALSE,
                   encoder |-> "not_run", encoder_runs |-> 0,
                   encoder_input |-> {},  \* the frame files ffmpeg was given
                   video_file |-> FALSE,
                   error |-> "none", exit_code |-> 0]
    /\ calc = Idle /\ hsv = Idle /\ render = Idle
    /\ main = Idle /\ grid = Idle

\* generate_video, to the head of the frame loop
VideoEnter ==
    /\ video.pc = "entry"
    /\ \E dir_ok \in BOOLEAN :
          video' = [video EXCEPT
                      !.pc = IF dir_ok THEN "loop" ELSE "exit",
                      !.error = IF dir_ok THEN "none" ELSE "frames_dir",
                      !.exit_code = IF dir_ok THEN 0 ELSE 101,
                      !.total_frames =
                          video_total_frames(video.fps, video.duration),
                      !.end_cx = video_end_values(video).cx,
                      !.end_cy = video_end_values(video).cy,
                      !.end_z = video_end_values(video).z]
    /\ UNCHANGED <<calc, hsv, render, main, grid>>

\* one pass of the frame loop: interpolate, render the frame, log it.  The
\* renderer exits the process (status 1) when the font cannot be read or the
\* image cannot be saved; an unparsable font and an unknown function panic.
FrameOutcomes == {"ok", "font_unreadable", "font_unparsable", "save_failed"}

\* (mutant) the failure is noted and the loop goes on to the next frame
video_frame_failed_skip(v, o) == [v EXCEPT !.error = o, !.i = v.i + 1]

\* the renderer failing inside frame v.i: std::process::exit(1), or the panic
\* of an unparsable font
video_frame_failed(v, o) ==
    [v EXCEPT !.pc = "exit", !.error = o,
              !.exit_code = IF o = "font_unparsable" THEN 101 ELSE 1]

VideoFrame ==
    /\ video.pc = "loop" /\ ~video_loop_done(video.i, video.total_frames)
    /\ LET i == video.i
           t == video_t(i, video.total_frames)
           cx == video_lerp(video.center_x, video.end_cx, t)
           cy == video_lerp(video.center_y, video.end_cy, t)
           z == video_zoom(video.zoom, video.end_z, t)
           time == video_time(i, video.fps)
           frame == [index |-> i, t |-> t, function |-> video.function,
                     center_x |-> cx, center_y |-> cy, zoom_arg |-> z,
                     zoom |-> render_zoom(video.function, z)]
       IN  IF video.function \notin {"mandelbrot", "schrodinger"}
           THEN video' = [video EXCEPT !.pc = "exit", !.exit_code = 101,
                                       !.error = "unknown_function"]
           ELSE \E o \in FrameOutcomes :
                  IF o = "ok"
                  THEN video' = [video EXCEPT
                         !.frames = Append(video.frames, frame),
                         !.files = video.files \cup {i},
                         !.log_entries = Append(video.log_entries,
                             [frame |-> i + 1, time |-> time,
                              x |-> cx, y |-> cy, zoom |-> z]),
                         !.i = i + 1]
                  ELSE video' = video_frame_failed(video, o)
    /\ UNCHANGED <<calc, hsv, render, main, grid>>

\* the lines written to the log file: the header, then one row per entry
video_log_lines(log_entries) ==
    <<"Frame,Time,X,Y,Zoom">> \o
        [k \in 1 .. Len(log_entries) |-> video_log_row(log_entries[k])]

\* the log file: File::create, then one writeln! per line.  Each of them
\* panics when it fails, leaving the lines written so far (none when the
\* file could not be created).
VideoWriteLog ==
    /\ video.pc = "loop" /\ video_loop_done(video.i, video.total_frames)
    /\ LET lines == video_log_lines(video.log_entries)
       IN  \E n \in 0 .. Len(lines) :
              IF n = Len(lines)
              THEN video' = [video EXCEPT !.pc = "encode",
                                          !.log_written = TRUE,
                                          !.log_file = lines]
              ELSE video' = [video EXCEPT !.pc = "exit", !.exit_code = 101,
                                          !.error = "log",
                                          !.log_file = SubSeq(lines, 1, n)]
    /\ UNCHANGED <<calc, hsv, render, main, grid>>

\* ffmpeg: not found, run and failed, or run and succeeded
EncoderOutcomes == {"not_found", "failed", "success"}

\* (mutant) the frames are removed whenever ffmpeg ran
video_cleanup_after_run(o, files, total_frames) ==
    IF o # "not_found" THEN files \ (0 .. (total_frames - 1)) ELSE files

\* the frame files left by the clean-up: on success the files
\* 0 .. total_frames - 1 are removed (a removal that fails is ignored by the
\* code and taken to succeed here)
video_cleanup(o, files, total_frames) ==
    IF o = "success" THEN files \ (0 .. (total_frames - 1)) ELSE files

VideoEncode ==
    /\ video.pc = "encode"
    /\ \E o \in EncoderOutcomes :
          video' = [video EXCEPT
                      !.pc = "returned",
                      !.encoder = o,
                      !.encoder_runs = IF o = "not_found"
                                       THEN video.encoder_runs
                                       ELSE video.encoder_runs + 1,
                      !.encoder_input = IF o = "not_found" THEN {}
                                        ELSE video.files,
                      !.video_file = (o = "success"),
                      !.files = video_cleanup(o, video.files,
                                              video.total_frames)]
    /\ UNCHANGED <<calc, hsv, render, main, grid>>

\* main renders a video when any end value is given
is_video(a) ==
    a.end_center_x # None \/ a.end_center_y # None \/ a.end_zoom # None

\* main after the generate_video it called has returned: save_config, which
\* reports a failed write and goes on, then the end of main: the process
\* ends with status 0 whatever the encoder did
VideoMainReturn ==
    /\ video.pc = "returned" /\ is_video(video)
    /\ video' = [video EXCEPT !.pc = "done", !.exit_code = 0]
    /\ UNCHANGED <<calc, hsv, render, main, grid>>

VideoNext ==
    \/ VideoEnter \/ VideoFrame \/ VideoWriteLog \/ VideoEncode
    \/ VideoMainReturn
VideoSpec == VideoInit /\ [][VideoNext]_vars

(***************************************************************************)
(* main.rs, parameters.rs, config.rs: one run of the program               *)
(*                                                                         *)
(* The renderers and generate_video are entered here only through what     *)
(* they leave behind (the artifacts written and the way the call ends).    *)
(* main.rs reads args.m_size and args.grid_input, which neither Args nor   *)
(* Config declares: the args of the model carry both.  A path is a record  *)
(* [stem, ext] (ext "" when the name has no extension), the disk a         *)
(* function from the paths of the existing files to their contents.        *)
(***************************************************************************)
Path(stem, ext) == [stem |-> stem, ext |-> ext]
\* Path::with_extension
with_extension(p, ext) == [stem |-> p.stem, ext |-> ext]

\* the fields of Config, and those of type Option
ConfigFields ==
    {"width", "height", "max_iterations", "output_path", "bands", "center_x",
     "center_y", "zoom", "end_center_x", "end_center_y", "end_zoom", "fps",
     "duration", "frames_dir", "font_path", "zoom_text_x", "zoom_text_y",
     "zoom_font_size", "function"}
OptionFields == {"end_center_x", "end_center_y", "end_zoom"}

\* toml::to_string(&config): one key per field, a field that is None left out
toml_to_string(config) ==
    [kind |-> "toml",
     doc |-> [k \in {f \in ConfigFields :
                        f \notin OptionFields \/ config[f] # None} |->
                 IF k \in OptionFields THEN config[k][1] ELSE config[k]]]

\* toml::from_str::<Config>: None when the text is not TOML or a required key
\* is missing; a missing Option key reads as None
toml_from_str(content) ==
    IF content.kind # "toml" THEN None
    ELSE IF ~((ConfigFields \ OptionFields) \subseteq DOMAIN content.doc)
    THEN None
    ELSE Some([f \in ConfigFields |->
                 IF f \in OptionFields
                 THEN (IF f \in DOMAIN content.doc THEN Some(content.doc[f])
                       ELSE None)
                 ELSE content.doc[f]])

\* (mutant) an end value given on the command line survives a config that
\* has none
config_into_args_or_cmdline(args, config) ==
    [f \in DOMAIN args |->
        IF f = "output_path" THEN Some(config.output_path)
        ELSE IF f \in OptionFields /\ config[f] = None THEN args[f]
        ELSE IF f \in ConfigFields THEN config[f]
        ELSE args[f]]

\* the assignments of load_config, config.rs:33-51
config_into_args(args, config) ==
    [f \in DOMAIN args |->
        IF f = "output_path" THEN Some(config.output_path)
        ELSE IF f \in ConfigFields THEN config[f]
        ELSE args[f]]

\* (mutant) a config that cannot be read or parsed is passed over and the
\* command line values stay
load_config_lenient(args, config_path, disk) ==
    IF config_path = None THEN [status |-> "ok", args |-> args]
    ELSE IF config_path[1] \notin DOMAIN disk
    THEN [status |-> "ok", args |-> args]
    ELSE LET parsed == toml_from_str(disk[config_path[1]])
         IN  IF parsed = None THEN [status |-> "ok", args |-> args]
             ELSE [status |-> "ok",
                   args |-> config_into_args(args, parsed[1])]

\* load_config: the args after the call, or the exit with status 1
load_config(args, config_path, disk) ==
    IF config_path = None THEN [status |-> "ok", args |-> args]
    ELSE IF config_path[1] \notin DOMAIN disk
    THEN [status |-> "exit", args |-> args]
    ELSE LET parsed == toml_from_str(disk[config_path[1]])
         IN  IF parsed = None THEN [status |-> "exit", args |-> args]
             ELSE [status |-> "ok",
                   args |-> config_into_args(args, parsed[1])]

\* the Config built by save_config
config_of_args(args, output_path) ==
    [f \in ConfigFields |-> IF f = "output_path" THEN output_path ELSE args[f]]

\* std::fs::write(path, content): the disk afterwards
fs_write(disk, path, content, write_ok) ==
    IF write_ok
    THEN [q \in DOMAIN disk \cup {path} |->
            IF q = path THEN content ELSE disk[q]]
    ELSE disk

\* (mutant) the config is saved whether or not one was loaded
save_config_always(args, output_path, disk, write_ok) ==
    [write |-> IF write_ok THEN "ok" ELSE "failed",
     disk |-> fs_write(disk, with_extension(output_path, "conf"),
                       toml_to_string(config_of_args(args, output_path)),
                       write_ok)]

\* save_config: whether the file was written ("none" when no write was
\* made, else "ok" or "failed") and the disk after the call
save_config(args, output_path, disk, write_ok) ==
    IF args.config = None
    THEN [write |-> IF write_ok THEN "ok" ELSE "failed",
          disk |-> fs_write(disk, with_extension(output_path, "conf"),
                            toml_to_string(config_of_args(args, output_path)),
                            write_ok)]
    ELSE [write |-> "none", disk |-> disk]

\* two parameter sets: the defaults of Args, and the values of the tests
ArgsDefault ==
    [width |-> 800, height |-> 600, max_iterations |-> 1000,
     output_path |-> None, config |-> None, bands |-> 16,
     center_x |-> Frac(-1, 2), center_y |-> Zero, zoom |-> One,
     end_center_x |-> None, end_center_y |-> None, end_zoom |-> None,
     fps |-> R(30), duration |-> R(10), frames_dir |-> "frames",
     font_path |-> "/System/Library/Fonts/Helvetica.ttc",
     zoom_text_x |-> 10, zoom_text_y |-> 110, zoom_font_size |-> R(20),
     function |-> "mandelbrot", m_size |-> R(4), grid_input |-> None]
ArgsCustom ==
    [width |-> 1024, height |-> 768, max_iterations |-> 2000,
     output_path |-> None, config |-> None, bands |-> 32,
     center_x |-> Frac(-3, 4), center_y |-> Frac(1, 10), zoom |-> R(2),
     end_center_x |-> Some(Frac(-4, 5)), end_center_y |-> None,
     end_zoom |-> None,
     fps |-> R(60), duration |-> R(15), frames_dir |-> "custom_frames",
     font_path |-> "/custom/font.ttf",
     zoom_text_x |-> 20, zoom_text_y |-> 150, zoom_font_size |-> R(24),
     function |-> "schrodinger", m_size |-> R(10), grid_input |-> None]

MainFunctions == {"mandelbrot", "schrodinger", "manual", "grid", "julia"}
MainOutputPaths == {None, Some(Path("out", "png")), Some(Path("clip", ""))}
MainConfigs == {None, Some(Path("run", "conf")), Some(Path("out", "conf"))}
MainEndZooms == {None, Some(R(8))}
MainGridInputs(fn) ==
    IF fn = "grid" THEN {None, Some(Path("in", "png"))} ELSE {None}
\* the command lines of the model
MainArgs ==
    UNION {{[base EXCEPT !.function = fn, !.output_path = op, !.config = cf,
                         !.end_zoom = ez, !.grid_input = gi] :
               base \in {ArgsDefault, ArgsCustom}, op \in MainOutputPaths,
               cf \in MainConfigs, ez \in MainEndZooms,
               gi \in MainGridInputs(fn)} : fn \in MainFunctions}

\* contents of a config file: saved by an earlier run (of one image, of a
\* video), TOML without the required keys, and text that is not TOML
FileImage ==
    toml_to_string(config_of_args([ArgsDefault EXCEPT !.bands = 8],
                                  Path("out", "png")))
FileVideo == toml_to_string(config_of_args(ArgsCustom, Path("film", "")))
FileIncomplete == [kind |-> "toml", doc |-> [k \in {"width", "height"} |-> 640]]
FileGarbage == [kind |-> "text", doc |-> [k \in {"text"} |-> "not a config"]]
NoFile == [kind |-> "none", doc |-> [k \in {"none"} |-> 0]]
DiskOf(run_conf, out_conf) ==
    LET paths ==
            (IF run_conf.kind = "none" THEN {} ELSE {Path("run", "conf")})
            \cup (IF out_conf.kind = "none" THEN {} ELSE {Path("out", "conf")})
    IN  [q \in paths |-> IF q = Path("run", "conf") THEN run_conf ELSE out_conf]
MainDisks ==
    {DiskOf(rc, oc) :
        rc \in {NoFile, FileGarbage, FileIncomplete, FileImage, FileVideo},
        oc \in {NoFile, FileVideo, FileGarbage}}

\* how the call main dispatches to ends (it returns, or the process ends
\* inside it with a status), and the artifacts it has written by then
Returned(produced) ==
    [ends |-> "returned", status |-> 0, produced |-> produced]
Ended(status, produced) ==
    [ends |-> "exit", status |-> status, produced |-> produced]
CallOutcomes(args) ==
    IF is_video(args)
    THEN IF args.function \in {"mandelbrot", "schrodinger"}
         THEN {Returned({"frames", "log"}),
               Returned({"frames", "log", "video"}),
               Ended(1, {}), Ended(1, {"frames"}),
               Ended(101, {}), Ended(101, {"frames"})}
         ELSE {Ended(101, {})}
    ELSE CASE args.function \in {"mandelbrot", "schrodinger"} ->
                  {Returned({"image"}), Ended(1, {}), Ended(101, {})}
           [] args.function = "manual" ->
                  {Returned({"image"}), Ended(101, {})}
           [] args.function = "grid" ->
                  IF args.grid_input # None
                  THEN {Returned({"grid"}), Ended(1, {})}
                  ELSE {Ended(1, {})}
           [] OTHER -> {Ended(101, {})}

MainStart(cmdline, disk, prev) ==
    [pc |-> "load_config",
     cmdline |-> cmdline,     \* the args as clap parsed them
     args |-> cmdline,
     disk0 |-> disk,          \* the config files when the run started
     disk |-> disk,
     output_path |-> None,
     produced |-> {},         \* artifacts written by the dispatched call
     config_write |-> "none", \* the fs::write of save_config
     prev |-> prev,           \* the args of the run that saved the config
     exit_code |-> 0]

MainInit ==
    /\ \E cmdline \in MainArgs, disk \in MainDisks :
          main = MainStart(cmdline, disk, None)
    /\ calc = Idle /\ hsv = Idle /\ render = Idle /\ video = Idle
    /\ grid = Idle

\* prepare_parameters, the call of load_config
MainLoadConfig ==
    /\ main.pc = "load_config"
    /\ LET r == load_config(main.args, main.args.config, main.disk)
       IN  main' = IF r.status = "ok"
                   THEN [main EXCEPT !.pc = "output_path", !.args = r.args]
                   ELSE [main EXCEPT !.pc = "exit", !.exit_code = 1]
    /\ UNCHANGED <<calc, hsv, render, video, grid>>

\* prepare_parameters, the rest: output_path is required
MainOutputPath ==
    /\ main.pc = "output_path"
    /\ main' = IF main.args.output_path = None
               THEN [main EXCEPT !.pc = "exit", !.exit_code = 1]
               ELSE [main EXCEPT !.pc = "dispatch",
                                 !.output_path = main.args.output_path[1]]
    /\ UNCHANGED <<calc, hsv, render, video, grid>>

\* main, the call of generate_video, of a renderer or of add_grid_to_image
MainDispatch ==
    /\ main.pc = "dispatch"
    /\ \E o \in CallOutcomes(main.args) :
          main' = IF o.ends = "returned"
                  THEN [main EXCEPT !.pc = "save_config",
                                    !.produced = o.produced]
                  ELSE [main EXCEPT !.pc = "exit", !.produced = o.produced,
                                    !.exit_code = o.status]
    /\ UNCHANGED <<calc, hsv, render, video, grid>>

\* main, the call of save_config and the return
MainSaveConfig ==
    /\ main.pc = "save_config"
    /\ \E write_ok \in BOOLEAN :
          LET r == save_config(main.args, main.output_path, main.disk,
                               write_ok)
          IN  main' = [main EXCEPT !.pc = "done", !.disk = r.disk,
                                   !.config_write = r.write,
                                   !.exit_code = 0]
    /\ UNCHANGED <<calc, hsv, render, video, grid>>

\* a later run of the program, given the config the run before has saved
MainRerunArgs ==
    {[base EXCEPT !.function = fn] :
        base \in {ArgsDefault, ArgsCustom},
        fn \in {"mandelbrot", "schrodinger"}}
MainRunAgain ==
    /\ main.pc = "done" /\ main.config_write = "ok" /\ main.prev = None
    /\ \E cmdline \in MainRerunArgs :
          main' = MainStart(
                      [cmdline EXCEPT !.config =
                          Some(with_extension(main.output_path, "conf"))],
                      main.disk, Some(main.args))
    /\ UNCHANGED <<calc, hsv, render, video, grid>>

MainNext ==
    \/ MainLoadConfig \/ MainOutputPath \/ MainDispatch \/ MainSaveConfig
    \/ MainRunAgain
MainSpec == MainInit /\ [][MainNext]_vars

(***************************************************************************)
(* generate_mandelbrot.rs : add_grid_to_image                              *)
(*                                                                         *)
(* Every segment drawn runs the whole height or the whole width of the     *)
(* image, and the horizontal ones are drawn after the vertical ones: the   *)
(* image is kept as the line that painted each column and each row.  The   *)
(* pixel (x, y) has the colour of row y if a line painted it, else that of *)
(* column x, else the colour it had in the input.                          *)
(***************************************************************************)
Blue == <<0, 0, 255, 255>>
Unpainted == [line |-> -1, color |-> <<0, 0, 0, 0>>]

\* is_center_line of the line at position pos along an axis of length extent
grid_is_center_line(pos, extent) == pos = ((extent \div 2) \div 50) * 50
grid_line_width(pos, extent) ==
    IF grid_is_center_line(pos, extent) THEN 5 ELSE 3
grid_color(line_index) == IF line_index % 2 = 0 THEN Blue ELSE Black

\* the columns (rows) after the line at pos has been drawn: the segments at
\* pos + 0 .. pos + line_width - 1 that lie inside the image
grid_draw_line(painted, pos, extent) ==
    [c \in DOMAIN painted |->
        IF c >= pos /\ c < pos + grid_line_width(pos, extent)
        THEN [line |-> pos \div 50, color |-> grid_color(pos \div 50)]
        ELSE painted[c]]

\* the path the result is saved to
grid_output_path(input_path) ==
    IF input_path.ext = "png"
    THEN [stem |-> <<input_path.stem, "_grid">>, ext |-> "png"]
    ELSE [stem |-> <<input_path.stem, ".", input_path.ext, "_grid">>,
          ext |-> "png"]

GridWidths == {1, 50, 100, 101, 150, 190, 200}
GridHeights == {1, 100, 149, 150, 190}
GridInputs == {Path("in", "png"), Path("photo", "jpg")}

GridInit ==
    /\ \E w \in GridWidths, h \in GridHeights, input_path \in GridInputs :
          grid = [input_path |-> input_path, width |-> w, height |-> h,
                  pc |-> "open", x |-> 0, y |-> 0,
                  cols |-> [c \in 0 .. (w - 1) |-> Unpainted],
                  rows |-> [r \in 0 .. (h - 1) |-> Unpainted],
                  output_path |-> None, result |-> "none"]
    /\ calc = Idle /\ hsv = Idle /\ render = Idle /\ video = Idle
    /\ main = Idle

\* image::open(input_path)?.to_rgba8()
GridOpen ==
    /\ grid.pc = "open"
    /\ \E ok \in BOOLEAN :
          grid' = IF ok THEN [grid EXCEPT !.pc = "vertical"]
                  ELSE [grid EXCEPT !.pc = "returned", !.result = "Err"]
    /\ UNCHANGED <<calc, hsv, render, video, main>>

\* one pass of `for x in (0..width).step_by(50)`
GridVerticalLine ==
    /\ grid.pc = "vertical" /\ grid.x < grid.width
    /\ grid' = [grid EXCEPT
                  !.cols = grid_draw_line(grid.cols, grid.x, grid.width),
                  !.x = grid.x + 50]
    /\ UNCHANGED <<calc, hsv, render, video, main>>

GridVerticalDone ==
    /\ grid.pc = "vertical" /\ grid.x >= grid.width
    /\ grid' = [grid EXCEPT !.pc = "horizontal"]
    /\ UNCHANGED <<calc, hsv, render, video, main>>

\* one pass of `for y in (0..height).step_by(50)`
GridHorizontalLine ==
    /\ grid.pc = "horizontal" /\ grid.y < grid.height
    /\ grid' = [grid EXCEPT
                  !.rows = grid_draw_line(grid.rows, grid.y, grid.height),
                  !.y = grid.y + 50]
    /\ UNCHANGED <<calc, hsv, render, video, main>>

\* the output path and img.save(&output_path)?
GridSave ==
    /\ grid.pc = "horizontal" /\ grid.y >= grid.height
    /\ \E ok \in BOOLEAN :
          grid' = [grid EXCEPT
                     !.pc = "returned",
                     !.output_path = Some(grid_output_path(grid.input_path)),
                     !.result = IF ok THEN "Ok" ELSE "Err"]
    /\ UNCHANGED <<calc, hsv, render, video, main>>

GridNext ==
    \/ GridOpen \/ GridVerticalLine \/ GridVerticalDone
    \/ GridHorizontalLine \/ GridSave
GridSpec == GridInit /\ [][GridNext]_vars

(***************************************************************************)
(* Properties                                                              *)
(***************************************************************************)
BeforeAnnotation == render.pc = "pixels"
RenderedPixels == 1 .. Len(render.plane)

\* C1: in generate_mandelbrot every pixel whose escape-time count equals
\* max_iterations is black before the annotation is drawn.
C1_NotEscapedIsBlack ==
    (BeforeAnnotation /\ render.function = "mandelbrot") =>
        \A k \in RenderedPixels :
            render.iters[k] = render.max_iterations =>
                render.imgbuf[k - 1] = Black

\* C2: in both render entry points a zoom <= 0 is replaced by 1.0 before any
\* pixel is mapped, so the zoom the mapping uses is strictly positive.
C2_ZoomPositiveWhenMapping ==
    BeforeAnnotation =>
        /\ RGt(render.zoom, Zero)
        /\ RLe(render.zoom_arg, Zero) => render.zoom = One

\* the plane extents of the two axes as m_size / zoom prescribes them
ExtentShort == RDiv(render.m_size, render.zoom_arg)
ExtentX == IF render.width > render.height
           THEN RMul(ExtentShort, Frac(render.width, render.height))
           ELSE ExtentShort
ExtentY == IF render.height > render.width
           THEN RMul(ExtentShort, Frac(render.height, render.width))
           ELSE ExtentShort

\* C3: for zoom > 0 the plane extent spanned by the shorter image dimension
\* is m_size / zoom and that of the longer dimension is this value times the
\* aspect ratio, in both renderers.  The extent of an axis is the step
\* between neighbouring pixels times the number of pixels.
C3_ExtentIsSizeOverZoom ==
    (BeforeAnnotation /\ RGt(render.zoom_arg, Zero)) =>
        /\ Len(render.plane) >= 2 =>
              RMul(RSub(render.plane[2][1], render.plane[1][1]),
                   R(render.width)) = ExtentX
        /\ Len(render.plane) >= render.width + 1 =>
              RMul(RSub(render.plane[render.width + 1][2], render.plane[1][2]),
                   R(render.height)) = ExtentY

\* the pixel at the image centre, and the scales at zoom = 1
CenterIndex == (render.height \div 2) * render.width + render.width \div 2
FixedScaleX == IF render.width > render.height
               THEN RMul(render.m_size, Frac(render.width, render.height))
               ELSE render.m_size
FixedScaleY == IF render.height > render.width
               THEN RMul(render.m_size, Frac(render.height, render.width))
               ELSE render.m_size

C5_OriginNeverEscapes ==
    (calc.pc = "done" /\ calc.cx = Zero /\ calc.cy = Zero) =>
        calc.result = calc.max_iterations
C5_Witness ==
    /\ calc.pc = "done" /\ calc.cx = Zero /\ calc.cy = Zero
    /\ calc.max_iterations = CalcMaxIter /\ calc.result = CalcMaxIter

\* C6: at saturation = value = 255 the hues 0, 60, 120, 180, 240, 300 give
\* red, yellow, green, cyan, blue, magenta, each with alpha 255.
Primaries ==
    {<<0, <<255, 0, 0, 255>>>>, <<60, <<255, 255, 0, 255>>>>,
     <<120, <<0, 255, 0, 255>>>>, <<180, <<0, 255, 255, 255>>>>,
     <<240, <<0, 0, 255, 255>>>>, <<300, <<255, 0, 255, 255>>>>}
C6_PrimaryHues ==
    (hsv.pc = "ret" /\ hsv.s = 255 /\ hsv.v = 255) =>
        \A pr \in Primaries : hsv.h = R(pr[1]) => hsv.color = pr[2]
C6_Witness ==
    /\ hsv.pc = "ret" /\ hsv.s = 255 /\ hsv.v = 255
    /\ hsv.h = R(300) /\ hsv.color = <<255, 0, 255, 255>>

\* C7: for every hue, value 0 gives black whatever the saturation, and
\* saturation 0 gives the gray (v, v, v).
C7_BlackAndGray ==
    hsv.pc = "ret" =>
        /\ hsv.v = 0 => hsv.color = <<0, 0, 0, 255>>
        /\ hsv.s = 0 => hsv.color = <<hsv.v, hsv.v, hsv.v, 255>>
C7_Witness ==
    /\ hsv.pc = "ret" /\ hsv.s = 0 /\ hsv.v = 77 /\ hsv.h = R(195)
    /\ hsv.color = <<77, 77, 77, 255>>

VideoFrames == 1 .. Len(video.frames)
Specified(o) == o # None

FrameCount == video.total_frames
\* the point dividing start .. end in the ratio i : (n - 1 - i)
Between(start, end, i, n) ==
    IF n > 1 THEN RDiv(RAdd(RMul(start, R(n - 1 - i)), RMul(end, R(i))), R(n - 1))
    ELSE start

LogZoom(start, end, i, n) ==
    LET a == IF start[2] = 1 THEN ILog2(start[1]) ELSE -ILog2(start[2])
        b == IF end[2] = 1 THEN ILog2(end[1]) ELSE -ILog2(end[2])
        q == IF n > 1 THEN Frac(a * (n - 1 - i) + b * i, n - 1) ELSE R(a)
        whole == RFloor(q)
    IN  [m |-> IF whole >= 0 THEN R(2 ^ whole) ELSE Frac(1, 2 ^ (-whole)),
         e |-> RSub(q, R(whole))]

\* C10: the zoom of a frame is exp of the linear interpolation of ln(start)
\* and ln(end) exactly when the start zoom and the resolved end zoom are both
\* strictly positive, and start + (end - start) * t of the raw zooms otherwise.
C10_ZoomInterpolation ==
    video.pc \notin {"idle", "entry"} =>
        \A k \in VideoFrames :
            LET f == video.frames[k]
                i == k - 1
            IN  /\ f.zoom_arg =
                     IF video.zoom[1] > 0 /\ video.end_z[1] > 0
                     THEN LogZoom(video.zoom, video.end_z, i, FrameCount)
                     ELSE Real(Between(video.zoom, video.end_z, i, FrameCount))
                /\ video.log_entries[k].zoom = f.zoom_arg
C10_Witness ==
    /\ video.pc = "encode" /\ FrameCount = 3 /\ Len(video.frames) = 3
    /\ video.zoom = One /\ video.end_z = R(8)
    /\ video.frames[2].zoom_arg = [m |-> R(2), e |-> Frac(1, 2)]
    /\ video.frames[3].zoom_arg = Real(R(8))
C10_WitnessLinear ==
    /\ video.pc = "encode" /\ FrameCount = 3 /\ Len(video.frames) = 3
    /\ video.zoom = R(4) /\ video.end_z = R(-2)
    /\ video.frames[2].zoom_arg = Real(One)
\* the square of m * 2^e, where e is 0 or 1/2
ZoomSquared(z) == RMul(RMul(z.m, z.m), IF z.e = Zero THEN One ELSE R(2))

\* C11: a frame at t = 1/2 whose zoom is interpolated logarithmically (start
\* and end zoom positive) has the geometric mean of the two as its zoom: its
\* square is start * end, and from 1 to 4 it is 2.
C11_GeometricMeanAtHalf ==
    video.pc \notin {"idle", "entry"} =>
        \A k \in VideoFrames :
            LET f == video.frames[k]
            IN  (f.t = Frac(1, 2) /\ RGt(video.zoom, Zero)
                    /\ RGt(video.end_z, Zero)) =>
                    /\ f.zoom_arg.e \in {Zero, Frac(1, 2)}
                    /\ ZoomSquared(f.zoom_arg) = RMul(video.zoom, video.end_z)
                    /\ (video.zoom = One /\ video.end_z = R(4)) =>
                            f.zoom_arg = Real(R(2))
C11_Witness ==
    /\ video.pc = "encode" /\ FrameCount = 5 /\ Len(video.frames) = 5
    /\ video.zoom = One /\ video.end_zoom = Some(R(4))
    /\ video.frames[3].t = Frac(1, 2)
    /\ video.frames[3].zoom_arg = Real(R(2))

LogRows == 1 .. (Len(video.log_file) - 1)
LogRow(k) == video.log_file[k + 1]
\* n hundredths is a nearest multiple of 0.01 to the rational a
NearestHundredth(n, a) ==
    RLe(RAbs(RSub(RMul(a, R(100)), R(n))), Frac(1, 2))

EncoderAttempted == video.encoder # "not_run"
AllFrameFiles == 0 .. (FrameCount - 1)

\* C13: the encoder is invoked at most once, and only after all frame_count
\* frames have been rendered and saved and the frame log has been written in
\* full; once it has been invoked no frame is rendered.
C13_EncoderAfterFramesAndLog ==
    /\ [](/\ video.pc # "idle" => video.encoder_runs <= 1
          /\ EncoderAttempted =>
                /\ Len(video.frames) = FrameCount
                /\ \A k \in VideoFrames : video.frames[k].index = k - 1
                /\ video.encoder_runs = 1 =>
                        AllFrameFiles \subseteq video.encoder_input
                /\ video.log_written
                /\ Len(video.log_file) = FrameCount + 1)
    /\ [][EncoderAttempted =>
            /\ video'.frames = video.frames
            /\ video'.encoder_runs = video.encoder_runs]_vars
C13_Witness ==
    /\ video.pc = "returned" /\ video.encoder = "success"
    /\ video.encoder_runs = 1 /\ FrameCount = 3
    /\ video.encoder_input = {0, 1, 2} /\ video.files = {}
    /\ Len(video.frames) = 3
    /\ Len(video.log_file) = 4

\* the frame files this run has written so far
GeneratedFiles == {video.frames[k].index : k \in VideoFrames}

C14_Witness ==
    /\ video.pc = "returned" /\ video.encoder = "failed" /\ FrameCount = 3
    /\ video.stale = {} /\ video.files = {0, 1, 2} /\ video.log_written
C15_ExitReflectsEncoder ==
    video.pc = "done" =>
        /\ video.encoder = "failed" => video.exit_code # 0
        /\ video.encoder = "not_found" => video.exit_code = 0

FrameFailed ==
    video.error \in {"font_unreadable", "font_unparsable", "save_failed"}

\* C16: when the font load or the image write fails in frame k, the process
\* ends there with a non-zero status: the frames rendered are those before
\* k, the log is never written and the encoder never invoked.
C16_FailFast ==
    /\ [](FrameFailed =>
            /\ video.pc = "exit" /\ video.exit_code # 0
            /\ video.i < FrameCount /\ Len(video.frames) = video.i
            /\ \A k \in VideoFrames : video.frames[k].index < video.i
            /\ ~video.log_written /\ video.log_file = <<>>
            /\ video.encoder = "not_run" /\ video.encoder_runs = 0
            /\ ~video.video_file)
    /\ [][video.pc # "exit"]_vars
C16_Witness ==
    /\ video.error = "save_failed" /\ video.pc = "exit" /\ video.exit_code = 1
    /\ FrameCount = 3 /\ video.i = 1 /\ Len(video.frames) = 1
    /\ video.stale = {} /\ video.files = {0} /\ ~video.log_written

\* the config named on the command line is missing, not TOML, or lacks keys
ConfigUnusable ==
    /\ main.cmdline.config # None
    /\ LET path == main.cmdline.config[1]
       IN  \/ path \notin DOMAIN main.disk0
           \/ main.disk0[path].kind = "text"
           \/ DOMAIN main.disk0[path].doc = {"width", "height"}

\* C17: when the config given cannot be read or parsed the process exits
\* with status 1 before any rendering: no image, frame, log or video is
\* produced and no config saved.
C17_ConfigErrorExitsEarly ==
    (main.pc \notin {"idle", "load_config"} /\ ConfigUnusable) =>
        /\ main.pc = "exit" /\ main.exit_code = 1
        /\ main.produced = {} /\ main.config_write = "none"
        /\ main.disk = main.disk0
C17_Witness ==
    /\ main.pc = "exit" /\ main.exit_code = 1
    /\ main.cmdline.config = Some(Path("run", "conf"))
    /\ Path("run", "conf") \in DOMAIN main.disk0
    /\ main.disk0[Path("run", "conf")].kind = "text"
    /\ main.cmdline.output_path = Some(Path("out", "png"))
    /\ main.cmdline.function = "mandelbrot"
    /\ main.produced = {}

\* the parameters the round trip is to reproduce (sigma is no parameter of
\* the program: generate_schrodinger fixes it at 0.5)
RoundTripFields ==
    {"width", "height", "center_x", "center_y", "zoom", "m_size", "function",
     "max_iterations", "bands", "font_path", "zoom_text_x", "zoom_text_y",
     "zoom_font_size", "end_center_x", "end_center_y", "end_zoom", "fps",
     "duration", "frames_dir"}
\* the run was given the config the run before it saved, and has loaded it
Reloaded == main.pc = "output_path" /\ main.prev # None

\* C18: a parameter set saved with save_config and reloaded with load_config
\* is reproduced field for field: the view parameters (math_space_size
\* among them), the field selection, bands, the annotation parameters, the
\* end values, fps, duration and frames_dir.
C18_ConfigRoundTrip ==
    /\ (main.pc = "exit" /\ main.prev # None) => main.output_path # None
    /\ Reloaded => \A f \in RoundTripFields : main.args[f] = main.prev[1][f]
\* the same for the fields Config declares
C18_ConfigFieldsRoundTrip ==
    /\ (main.pc = "exit" /\ main.prev # None) => main.output_path # None
    /\ Reloaded =>
          \A f \in RoundTripFields \ {"m_size"} :
              main.args[f] = main.prev[1][f]

\* the path save_config writes to
ConfPath == [stem |-> main.output_path.stem, ext |-> "conf"]
\* the files other than path are as they were when the run started
OthersUntouched(path) ==
    /\ DOMAIN main.disk0 \subseteq DOMAIN main.disk
    /\ \A q \in DOMAIN main.disk \ {path} :
          q \in DOMAIN main.disk0 /\ main.disk[q] = main.disk0[q]

\* C19: save_config writes the config, at the output path with the extension
\* replaced by "conf", exactly when args.config is None; a run whose
\* parameters were loaded from a config writes and modifies no config file.
C19_SaveOnlyWithoutConfig ==
    main.pc # "idle" =>
        /\ main.args.config # None =>
              main.disk = main.disk0 /\ main.config_write = "none"
        /\ main.disk # main.disk0 =>
              main.pc = "done" /\ main.args.config = None
        /\ main.pc = "done" =>
              /\ main.config_write # "none" <=> main.args.config = None
              /\ main.config_write = "failed" => main.disk = main.disk0
              /\ main.config_write = "ok" =>
                    /\ ConfPath \in DOMAIN main.disk
                    /\ main.disk[ConfPath].kind = "toml"
                    /\ main.disk[ConfPath].doc.width = main.args.width
                    /\ main.disk[ConfPath].doc.function = main.args.function
                    /\ main.disk[ConfPath].doc.output_path = main.output_path
                    /\ OthersUntouched(ConfPath)
C19_Witness ==
    /\ main.pc = "done" /\ main.args.config = None /\ main.prev = None
    /\ main.output_path = Path("out", "png") /\ main.config_write = "ok"
    /\ main.args.width = 1024
    /\ Path("out", "conf") \in DOMAIN main.disk0
    /\ main.disk0[Path("out", "conf")].kind = "text"
    /\ main.disk[Path("out", "conf")].kind = "toml"
    /\ main.disk[Path("out", "conf")].doc.width = 1024
C19_WitnessLoaded ==
    /\ main.pc = "done" /\ main.args.config = Some(Path("run", "conf"))
    /\ main.output_path = Path("out", "png") /\ main.produced = {"image"}
    /\ Path("out", "conf") \in DOMAIN main.disk
    /\ main.disk[Path("out", "conf")].kind = "text"
    /\ main.disk = main.disk0

\* the positions of the grid lines of an axis, and what was drawn of line k
GridPositions(extent) == {p \in 0 .. (extent - 1) : p % 50 = 0}
GridDrawn(painted, k) == {c \in DOMAIN painted : painted[c].line = k}
\* pos is a grid line nearest the middle of the axis
GridNearestCenter(pos, extent) ==
    \A p \in GridPositions(extent) :
        IAbs(2 * pos - extent) <= IAbs(2 * p - extent)
\* the part inside the image of a line n pixels wide at pos
GridLineRange(pos, n, extent) == {c \in pos .. (pos + n - 1) : c < extent}
GridAxisAsClaimed(painted, extent) ==
    /\ \A p \in GridPositions(extent) :
          /\ painted[p].line = p \div 50
          /\ painted[p].color = IF (p \div 50) % 2 = 0 THEN Blue ELSE Black
    /\ \A c \in DOMAIN painted :
          painted[c].line # -1 =>
              /\ painted[c].line * 50 \in GridPositions(extent)
              /\ painted[c].color = painted[painted[c].line * 50].color
    /\ \E p \in GridPositions(extent) :
          /\ GridNearestCenter(p, extent)
          /\ GridDrawn(painted, p \div 50) = GridLineRange(p, 5, extent)
          /\ \A q \in GridPositions(extent) \ {p} :
                GridDrawn(painted, q \div 50) = GridLineRange(q, 3, extent)

\* C20: add_grid_to_image draws a vertical line at every multiple of 50 below
\* width and a horizontal one at every multiple of 50 below height, line k
\* blue for even k and black for odd k; on each axis exactly one line, the
\* one nearest the image centre, is 5 pixels wide and the others 3 (as far
\* as the line lies inside the image).
C20_GridLines ==
    (grid.pc = "returned" /\ grid.result = "Ok") =>
        /\ GridAxisAsClaimed(grid.cols, grid.width)
        /\ GridAxisAsClaimed(grid.rows, grid.height)

(***************************************************************************)
(* C21                                                                     *)
(***************************************************************************)
CalcReturned == calc.pc = "done"
NormSquared == RAdd(RMul(calc.x0, calc.x0), RMul(calc.y0, calc.y0))
OrbitIsNaN == is_nan(calc.x0) \/ is_nan(calc.y0)
OrbitEscaped == ~OrbitIsNaN /\ ~RLe(NormSquared, R(4))
LoopStepsBounded ==
    /\ calc.iteration \in 0 .. calc.max_iterations
    /\ CalcReturned => calc.result \in 0 .. calc.max_iterations
\* a step of a call that has not returned either returns or is one more pass
\* of the loop, which uses up one of the max_iterations
LoopStepProgress ==
    /\ ~CalcReturned =>
           \/ CalcReturned' /\ calc'.result = calc.iteration
           \/ /\ ~CalcReturned'
              /\ calc'.iteration = calc.iteration + 1
              /\ calc.max_iterations - calc'.iteration
                     < calc.max_iterations - calc.iteration
    /\ CalcReturned => UNCHANGED calc

\* C21 as stated: every call of calc_mandelbrot returns, after at most
\* max_iterations passes of the loop, a result in [0, max_iterations], and
\* a result below max_iterations only when |z|^2 > 4.0 was reached.
C21_TerminatesEscapedOnly ==
    /\ [](/\ LoopStepsBounded
          /\ (CalcReturned /\ calc.result < calc.max_iterations)
                 => OrbitEscaped)
    /\ [][LoopStepProgress]_vars

\* What does hold: every call of calc_mandelbrot returns, after at most
\* max_iterations passes of the loop, a result in [0, max_iterations]; a
\* result below max_iterations only when the test |z|^2 <= 4.0 failed, that
\* is when |z|^2 > 4.0 was reached or when cx or cy is NaN, and in the NaN
\* case the result is 1.
C21_TerminatesTestFailedOnly ==
    /\ [](/\ LoopStepsBounded
          /\ (CalcReturned /\ calc.result < calc.max_iterations) =>
                 \/ OrbitEscaped
                 \/ /\ is_nan(calc.cx) \/ is_nan(calc.cy)
                    /\ calc.result = 1)
    /\ [][LoopStepProgress]_vars
C21_Witness ==
    /\ CalcReturned /\ OrbitEscaped
    /\ calc.result >= 2 /\ calc.result < calc.max_iterations
C21_WitnessNaN ==
    /\ CalcReturned /\ is_nan(calc.cx) /\ ~is_nan(calc.cy)
    /\ calc.result = 1 /\ calc.max_iterations = MaxIter
C21_WitnessFull ==
    /\ CalcReturned /\ ~OrbitEscaped /\ ~OrbitIsNaN
    /\ calc.result = CalcMaxIter /\ calc.cx = R(-1)

(***************************************************************************)
(* C22                                                                     *)
(***************************************************************************)
Red == <<255, 0, 0, 255>>
BandOf(count) == count - render.bands * (count \div render.bands)
HueOfBand(band) ==
    IF render.bands > 1 THEN Frac(band * 240, render.bands - 1) ELSE Zero
HueInRange(hue) == RLe(Zero, hue) /\ RLe(hue, R(240))

\* C22: a pixel of generate_mandelbrot with a non-zero count has the band
\* index count mod bands, in [0, bands - 1], and the hue
\* band_index / (bands - 1) * 240 if bands > 1 and 0 if bands = 1, so a hue
\* in [0, 240]; with bands = 1 the pixel is red.  With bands = 1 every pixel
\* of generate_schrodinger has hue 0 and is red.
C22_BandHue ==
    \A k \in RenderedPixels :
        /\ (render.function = "mandelbrot" /\ render.iters[k] # 0) =>
               /\ BandOf(render.iters[k]) \in 0 .. (render.bands - 1)
               /\ render.hues[k] = Some(HueOfBand(BandOf(render.iters[k])))
               /\ HueInRange(render.hues[k][1])
               /\ render.bands = 1 =>
                      /\ render.hues[k] = Some(Zero)
                      /\ BeforeAnnotation => render.imgbuf[k - 1] = Red
        /\ (render.function = "schrodinger" /\ render.bands = 1) =>
               /\ render.hues[k] = Some(Zero)
               /\ BeforeAnnotation => render.imgbuf[k - 1] = Red
\* a finished raster of generate_mandelbrot with three bands whose pixels
\* have the hues 0, 120 and 240
C22_Witness ==
    /\ render.function = "mandelbrot" /\ render.bands = 3
    /\ render.pc = "pixels" /\ render.idx = NPixels(render)
    /\ \A h \in {0, 120, 240} :
           \E k \in RenderedPixels : render.hues[k] = Some(R(h))
C22_WitnessOneBand ==
    /\ render.bands = 1 /\ render.function = "mandelbrot"
    /\ render.pc = "pixels" /\ render.idx = NPixels(render)
    /\ \E k \in RenderedPixels : render.iters[k] = 3
C22_WitnessGaussian ==
    /\ render.bands = 1 /\ render.function = "schrodinger"
    /\ render.pc = "pixels" /\ render.idx = NPixels(render)

(***************************************************************************)
(* C23                                                                     *)
(***************************************************************************)
ConfigLoaded == main.pc = "output_path"
GivenConfig == main.disk0[main.cmdline.config[1]].doc
\* the value the file gives to a field of args
ValueInFile(f) ==
    IF f \in OptionFields
    THEN (IF f \in DOMAIN GivenConfig THEN <<GivenConfig[f]>> ELSE <<>>)
    ELSE IF f = "output_path" THEN <<GivenConfig[f]>>
    ELSE GivenConfig[f]

\* C23: after load_config with a config that was read and parsed, each of
\* the nineteen parameter fields of args has the value of the file, whatever
\* the command line said, and args.config is as on the command line; after
\* load_config without a config path args is as on the command line.
C23_ConfigOverridesCommandLine ==
    ConfigLoaded =>
        IF main.cmdline.config = None
        THEN main.args = main.cmdline
        ELSE /\ \A f \in ConfigFields : main.args[f] = ValueInFile(f)
             /\ main.args.config = main.cmdline.config
\* a command line with --function julia --end-zoom 8 --output-path out.png
\* and a config that says mandelbrot, has no end_zoom and another bands
C23_Witness ==
    /\ ConfigLoaded /\ main.cmdline.config = Some(Path("run", "conf"))
    /\ main.cmdline.function = "julia" /\ main.args.function = "mandelbrot"
    /\ main.cmdline.end_zoom = Some(R(8)) /\ main.args.end_zoom = None
    /\ main.cmdline.bands = 32 /\ main.args.bands = 8
    /\ main.cmdline.output_path = Some(Path("clip", ""))
    /\ main.args.output_path = Some(Path("out", "png"))
C23_WitnessNoConfig ==
    /\ ConfigLoaded /\ main.cmdline.config = None
    /\ main.cmdline.function = "schrodinger" /\ main.cmdline.bands = 32

(***************************************************************************)
(* C24                                                                     *)
(***************************************************************************)
LoopCompleted ==
    \/ video.pc \in {"encode", "returned", "done"}
    \/ video.pc = "exit" /\ video.error = "log"
    \/ video.pc = "loop" /\ video.i >= video.total_frames
\* n is fps * duration rounded to the nearest integer, halves upwards
RoundsTo(n) ==
    LET x == RMul(video.fps, video.duration)
    IN  RLe(RSub(R(n), Frac(1, 2)), x) /\ RLt(x, RAdd(R(n), Frac(1, 2)))
LogEntries == 1 .. Len(video.log_entries)
IsPrefix(a, b) == Len(a) <= Len(b) /\ \A k \in 1 .. Len(a) : a[k] = b[k]

\* C24: once the frame loop has completed the log has one row for each of
\* the round(fps * duration) frames rendered, in strictly increasing frame
\* order, and the file written from it is the header "Frame,Time,X,Y,Zoom"
\* followed by these rows; a row is added only together with the render of
\* its frame, and the rows already there and the file written never change.
C24_LogRows ==
    /\ [](video.pc \notin {"idle", "entry"} =>
            /\ Len(video.log_entries) = Len(video.frames)
            /\ \A k \in LogEntries :
                  /\ video.log_entries[k].frame = video.frames[k].index + 1
                  /\ k > 1 => video.log_entries[k - 1].frame
                                  < video.log_entries[k].frame
            /\ LoopCompleted => RoundsTo(Len(video.log_entries))
            /\ video.log_written =>
                  /\ LoopCompleted
                  /\ Len(video.log_file) = Len(video.log_entries) + 1
                  /\ video.log_file[1] = "Frame,Time,X,Y,Zoom"
                  /\ \A k \in LogEntries :
                        /\ video.log_file[k + 1].frame = k
                        /\ video.log_file[k + 1]
                               = video_log_row(video.log_entries[k]))
    /\ [][video.pc \notin {"idle", "entry"} =>
            /\ IsPrefix(video.log_entries, video'.log_entries)
            /\ Len(video'.log_entries) <= Len(video.log_entries) + 1
            /\ Len(video'.log_entries) = Len(video.log_entries) + 1 =>
                  /\ Len(video'.frames) = Len(video.frames) + 1
                  /\ video.i \notin video.files \ video.stale
                  /\ video.i \in video'.files
            /\ video.log_written => video'.log_file = video.log_file]_vars
\* three frames from fps = 3 and duration = 1/2 (1.5 rounds to 2) is not it:
\* fps = 2 and duration = 3/2 gives three rows, written and then encoded
C24_Witness ==
    /\ video.pc = "returned" /\ video.log_written
    /\ video.fps = R(2) /\ video.duration = Frac(3, 2)
    /\ Len(video.log_file) = 4
    /\ video.log_file[4].frame = 3
C24_WitnessRounded ==
    /\ video.pc = "encode" /\ video.log_written
    /\ video.fps = R(3) /\ video.duration = Frac(1, 2)
    /\ Len(video.log_file) = 3
C24_WitnessPartial ==
    /\ video.pc = "exit" /\ video.error = "log"
    /\ Len(video.log_entries) = 3 /\ Len(video.log_file) = 2

(***************************************************************************)
(* C25                                                                     *)
(***************************************************************************)
HasFullChannel(color) == \E j \in 1 .. 3 : color[j] = 255

C25_CountAtLeastOne ==
    (calc.pc = "done" /\ calc.max_iterations >= 1) => calc.result >= 1
C26_LogZoomIsRenderZoom ==
    video.pc \notin {"idle", "entry"} =>
        \A k \in VideoFrames :
            /\ video.log_entries[k].zoom = video.frames[k].zoom
            /\ video.log_written =>
                  video.log_file[k + 1].zoom
                      = FmtReal(video.frames[k].zoom, 6)

\* What does hold: the row has the zoom the renderer was called with, which
\* is the zoom rendered unless generate_mandelbrot got a zoom <= 0 and
\* rendered with 1.0 instead.
C26_LogZoomIsZoomPassed ==
    video.pc \notin {"idle", "entry"} =>
        \A k \in VideoFrames :
            LET f == video.frames[k]
            IN  /\ video.log_entries[k].zoom = f.zoom_arg
                /\ (f.function = "schrodinger" \/ RealPositive(f.zoom_arg))
                       => f.zoom = f.zoom_arg
                /\ (f.function = "mandelbrot" /\ ~RealPositive(f.zoom_arg))
                       => f.zoom = Real(One) /\ f.zoom # f.zoom_arg
C26_WitnessClamped ==
    /\ video.log_written /\ video.function = "mandelbrot"
    /\ video.zoom = Zero /\ video.end_z = R(4)
    /\ Len(video.frames) = 2
    /\ video.log_entries[1].zoom = Real(Zero)
    /\ video.frames[1].zoom = Real(One)

=============================================================================
